---------------------------- MODULE Spec2Model ----------------------------
(***************************************************************************)
(* Model of examples/pubsub_realtime/pubsub_TSN_publisher.c: the main      *)
(* thread, the three role threads (publisherETF, subscriber,               *)
(* userApplicationPubSub), the shared counter cells, the measurement       *)
(* records, the running flag and the timespec arithmetic.                  *)
(*                                                                         *)
(* Time is counted in nanoseconds.  A struct timespec is a record          *)
(* [tv_sec, tv_nsec].  A UA_UInt64 nanosecond total (tv_sec * SECONDS +    *)
(* tv_nsec + ...) is kept as the two-digit base-SECONDS number             *)
(* [hi, lo], value hi * SECONDS + lo with 0 <= lo < SECONDS, because the   *)
(* total itself does not fit the model checker's integers.                 *)
(* A UA_Double fraction is a record [num, den]; a product that the code    *)
(* casts to an integer type is truncated as the cast truncates it.         *)
(* cfg.cycle is cycleTimeInMsec * MILLI_SECONDS.                           *)
(***************************************************************************)
EXTENDS Integers, Sequences, FiniteSets, TLC

\* ------------------------------------------------------------------ bounds
\* capacity of each measurement record in the model (the source: 10000000)
MAX_MEASUREMENTS == 2
\* a role loop is followed for at most this many iterations
MaxCycles == MAX_MEASUREMENTS + 1
\* largest counter value a received network message carries into subCounterData
MaxReceived == 1
\* calls of changePubSubApplicationCallbackInterval followed in one run
MaxIntervalChanges == 1

\* ------------------------------------------------------- program constants
SECONDS == 1000 * 1000 * 1000
MILLI_SECONDS == 1000 * 1000
SECONDS_SLEEP == 5
SECONDS_INCREMENT == 1
REPEATED_NODECOUNTS == 2
DEFAULT_QBV_OFFSET == 125
\* DEFAULT_CYCLE_TIME (0.25 ms) * MILLI_SECONDS
DEFAULT_CYCLE_TIME_NS == 250000
\* the bound of main's check cycleTimeInMsec < 0.125, * MILLI_SECONDS
MIN_CYCLE_TIME_NS == 125000
\* the initial repeatedCounterValue of userApplicationPubSub
repeatedCounterValue == 10

Frac(n, d) == [num |-> n, den |-> d]
DEFAULT_pubWakeupPercentage == Frac(3, 5)
DEFAULT_subWakeupPercentage == Frac(0, 1)
DEFAULT_userAppWakeupPercentage == Frac(3, 10)

Roles == {"pub", "sub", "user"}
\* a counter cell that is not allocated (the cells hold unsigned values)
NULL == -1
\* a callback id or thread handle that was never set
NoThread == "none"
NoTime == [hi |-> 0, lo |-> 0]

\* --------------------------------------------------------------- inputs
UA_STATUSCODE_GOOD == 0
\* the scheduling a thread of the process has before any threadCreation call
\* changed it: no real-time priority, no core pinned (core -1)
InitialSched == [priority |-> 0, core |-> -1]
\* variant: the publisher's and the subscriber's default priorities exchanged
DEFAULT_SCHED_PRIORITY_EXCHANGED == [pub |-> 81, sub |-> 78, user |-> 75]
DEFAULT_SCHED_PRIORITY == [pub |-> 78, sub |-> 81, user |-> 75]
DEFAULT_CORE == [pub |-> 2, sub |-> 2, user |-> 3]

\* every thread reads the same second from clock_gettime at its start
SameSecond == [pub |-> {7}, sub |-> {7}, user |-> {7}]

\* the configurations followed: command line (interface, cycleTimeInMsec as
\* cycle, qbvOffset, enableCsvLog, the priorities and cores of the three roles),
\* the wake-up fractions of the three roles and the reader group's
\* subscribingInterval (CYCLE_TIME, which the file does not define), all
\* intervals in nanoseconds; clock gives for each role thread the seconds that
\* clock_gettime can return to it; server is the status UA_Server_run returns; groups
\* are the roles whose group the library makes operational, that is, for which
\* it calls addPubSubApplicationCallback
Configs ==
  { [interface |-> TRUE,  cycle |-> 250000,     subInterval |-> 250000,
     clock |-> SameSecond,
     server |-> UA_STATUSCODE_GOOD, groups |-> {"pub", "sub"},
     priority |-> DEFAULT_SCHED_PRIORITY, core |-> DEFAULT_CORE,
     qbv |-> 125, csv |-> TRUE,
     pubW |-> Frac(3, 5), subW |-> Frac(0, 1), userW |-> Frac(3, 10)],
    [interface |-> TRUE,  cycle |-> 125000,     subInterval |-> 250000,
     clock |-> [pub |-> {7}, sub |-> {7}, user |-> {7, 8}],
     server |-> UA_STATUSCODE_GOOD, groups |-> {"pub", "sub"},
     priority |-> DEFAULT_SCHED_PRIORITY, core |-> DEFAULT_CORE,
     qbv |-> 0,   csv |-> FALSE,
     pubW |-> Frac(3, 5), subW |-> Frac(1, 2), userW |-> Frac(3, 10)],
    [interface |-> TRUE,  cycle |-> 400000000,  subInterval |-> 400000000,
     clock |-> [pub |-> {7, 8}, sub |-> {7}, user |-> {7, 8}],
     server |-> -2147418112, groups |-> {"pub"},
     priority |-> DEFAULT_SCHED_PRIORITY, core |-> DEFAULT_CORE,
     qbv |-> 125, csv |-> FALSE,
     pubW |-> Frac(2, 3), subW |-> Frac(0, 1), userW |-> Frac(1, 3)],
    [interface |-> TRUE,  cycle |-> 1100000000, subInterval |-> 1100000000,
     clock |-> SameSecond,
     server |-> UA_STATUSCODE_GOOD, groups |-> {"pub", "sub"},
     priority |-> [pub |-> 60, sub |-> 60, user |-> 99],
     core |-> [pub |-> 1, sub |-> 0, user |-> 1],
     qbv |-> 125, csv |-> FALSE,
     pubW |-> Frac(2, 3), subW |-> Frac(0, 1), userW |-> Frac(9, 10)],
    [interface |-> TRUE,  cycle |-> 100000,     subInterval |-> 100000,
     clock |-> SameSecond,
     server |-> UA_STATUSCODE_GOOD, groups |-> {"pub", "sub"},
     priority |-> DEFAULT_SCHED_PRIORITY, core |-> DEFAULT_CORE,
     qbv |-> 125, csv |-> FALSE,
     pubW |-> Frac(3, 5), subW |-> Frac(0, 1), userW |-> Frac(3, 10)],
    [interface |-> TRUE,  cycle |-> 124999,     subInterval |-> 124999,
     clock |-> SameSecond,
     server |-> UA_STATUSCODE_GOOD, groups |-> {"pub", "sub"},
     priority |-> DEFAULT_SCHED_PRIORITY, core |-> DEFAULT_CORE,
     qbv |-> 125, csv |-> TRUE,
     pubW |-> Frac(3, 5), subW |-> Frac(0, 1), userW |-> Frac(3, 10)],
    [interface |-> FALSE, cycle |-> 250000,     subInterval |-> 250000,
     clock |-> SameSecond,
     server |-> UA_STATUSCODE_GOOD, groups |-> {"pub", "sub"},
     priority |-> DEFAULT_SCHED_PRIORITY, core |-> DEFAULT_CORE,
     qbv |-> 125, csv |-> FALSE,
     pubW |-> Frac(3, 5), subW |-> Frac(0, 1), userW |-> Frac(3, 10)] }

VARIABLES
  cfg,                    \* the configuration of this run
  running,                \* UA_Boolean running
  proc,                   \* "running" | "exited" | "crashed"
  exitCode,               \* the exit status, once proc = "exited"
  mainPc,                 \* position of the main thread
  threadId,               \* [role -> handle threadCreation returned, or NoThread]
  sched,                  \* [thread -> its SCHED_FIFO priority and its core]
  joinFailed,             \* the roles whose pthread_join failure was logged
  csvDump,                \* the lines main has written to the two csv files
  pc,                     \* [role -> position of the role thread]
  next,                   \* [role -> nextnanosleeptime of the role thread]
  interval_ns,            \* [role -> the period the role adds each cycle]
  lastWait,               \* [role -> the timespec last given to clock_nanosleep]
  first,                  \* [role -> the first deadline of the role]
  t0,                     \* [role -> what clock_gettime returned at thread start]
  waits,                  \* [role -> completed clock_nanosleep calls]
  fires,                  \* [role -> payload invocations]
  transmission_time,      \* ethernettransportSettings.transmission_time
  published,              \* the counter value the last pubCallback call sent, or NULL
  changeStatus,           \* the statuses changePubSubApplicationCallbackInterval returned
  pubCounterData,         \* *pubCounterData, NULL while unallocated
  repeatedCounterData,    \* [index -> *repeatedCounterData[index]] or NULL
  subCounterData,         \* *subCounterData, NULL while unallocated
  measurementsPublisher,
  publishCounterValue,
  publishTimestamp,
  measurementsSubscriber,
  subscribeCounterValue,
  subscribeTimestamp,
  tsIn,                   \* argument of a nanoSecondFieldConversion call
  tsOut,                  \* the timespec after that call
  convDone                \* the call has returned

vars == <<cfg, running, proc, exitCode, mainPc, threadId, sched, joinFailed,
          csvDump, pc, next, interval_ns,
          lastWait, first, t0, waits, fires, transmission_time, published, changeStatus,
          pubCounterData,
          repeatedCounterData, subCounterData, measurementsPublisher,
          publishCounterValue, publishTimestamp, measurementsSubscriber,
          subscribeCounterValue, subscribeTimestamp, tsIn, tsOut, convDone>>

threadVars == <<pc, next, interval_ns, lastWait, first, t0, waits, fires>>
recordVars == <<measurementsPublisher, publishCounterValue, publishTimestamp,
                measurementsSubscriber, subscribeCounterValue, subscribeTimestamp>>
counterVars == <<pubCounterData, repeatedCounterData, subCounterData>>
convVars == <<tsIn, tsOut, convDone>>

\* ------------------------------------------------------- time arithmetic
\* variant: the carry is taken once (an if where the source has a while)
nanoSecondFieldConversionOnce(timeSpecValue) ==
  IF timeSpecValue.tv_nsec > (SECONDS - 1)
  THEN [tv_sec  |-> timeSpecValue.tv_sec + SECONDS_INCREMENT,
        tv_nsec |-> timeSpecValue.tv_nsec - SECONDS]
  ELSE timeSpecValue

\* variant: the carry is taken one nanosecond early
RECURSIVE nanoSecondFieldConversionEarly(_)
nanoSecondFieldConversionEarly(timeSpecValue) ==
  IF timeSpecValue.tv_nsec >= (SECONDS - 1)
  THEN nanoSecondFieldConversionEarly(
         [tv_sec  |-> timeSpecValue.tv_sec + SECONDS_INCREMENT,
          tv_nsec |-> timeSpecValue.tv_nsec - SECONDS])
  ELSE timeSpecValue

\* variant: on overflow one second is added and the nanosecond field is zeroed
nanoSecondFieldConversionZero(timeSpecValue) ==
  IF timeSpecValue.tv_nsec > (SECONDS - 1)
  THEN [tv_sec  |-> timeSpecValue.tv_sec + SECONDS_INCREMENT,
        tv_nsec |-> 0]
  ELSE timeSpecValue

RECURSIVE nanoSecondFieldConversion(_)
nanoSecondFieldConversion(timeSpecValue) ==
  IF timeSpecValue.tv_nsec > (SECONDS - 1)
  THEN nanoSecondFieldConversion(
         [tv_sec  |-> timeSpecValue.tv_sec + SECONDS_INCREMENT,
          tv_nsec |-> timeSpecValue.tv_nsec - SECONDS])
  ELSE timeSpecValue

\* (integer type)(x * f) for a non-negative x: the cast truncates
MulFrac(x, f) == (x \div f.den) * f.num + ((x % f.den) * f.num) \div f.den

\* (UA_UInt64)(x - x * f): the difference is truncated after the subtraction
SubFrac(x, f) == MulFrac(x, Frac(f.den - f.num, f.den))

\* (UA_UInt64)tv_sec * SECONDS + (UA_UInt64)tv_nsec
TotalNs(ts) == [hi |-> ts.tv_sec + (ts.tv_nsec \div SECONDS),
                lo |-> ts.tv_nsec % SECONDS]

\* a UA_UInt64 total plus n nanoseconds
AddNs(t, n) == [hi |-> t.hi + ((t.lo + n) \div SECONDS),
                lo |-> (t.lo + n) % SECONDS]


\* ------------------------------------------------------------ role threads
\* values clock_gettime(CLOCKID, ..) can return
ClockReads(r) == {[tv_sec |-> s, tv_nsec |-> 999999999] : s \in cfg.clock[r]}

\* interval_ms * MILLI_SECONDS as the thread receives it: the writer group's
\* publishingInterval is cycleTimeInMsec, the reader group's subscribingInterval
\* is CYCLE_TIME, the user application uses cycleTimeInMsec itself
IntervalNs(r) == IF r = "sub" THEN cfg.subInterval ELSE cfg.cycle

\* the tv_nsec each thread routine assigns before its loop
publisherETF_nsec == MulFrac(cfg.cycle, cfg.pubW)
subscriber_nsec == cfg.subW.num \div cfg.subW.den
userApplicationPubSub_nsec == MulFrac(cfg.cycle, cfg.userW)

FirstNsec(r) ==
  IF r = "pub" THEN publisherETF_nsec
  ELSE IF r = "sub" THEN subscriber_nsec
  ELSE userApplicationPubSub_nsec

\* clock_gettime; tv_sec += SECONDS_SLEEP; tv_nsec = ...; nanoSecondFieldConversion
FirstDeadline(r, now) ==
  nanoSecondFieldConversion([tv_sec  |-> now.tv_sec + SECONDS_SLEEP,
                             tv_nsec |-> FirstNsec(r)])

\* variant: the period is added and a single carry is taken
NextDeadlineOnce(ts, interval) ==
  nanoSecondFieldConversionOnce([ts EXCEPT !.tv_nsec = @ + interval])

\* variant: on overflow the nanosecond field is set to zero
NextDeadlineZero(ts, interval) ==
  IF ts.tv_nsec + interval > (SECONDS - 1)
  THEN [tv_sec |-> ts.tv_sec + SECONDS_INCREMENT, tv_nsec |-> 0]
  ELSE [ts EXCEPT !.tv_nsec = @ + interval]

\* tv_nsec += interval; nanoSecondFieldConversion
NextDeadline(ts, interval) ==
  nanoSecondFieldConversion([ts EXCEPT !.tv_nsec = @ + interval])

\* variant: the wake-up share of the cycle instead of the rest of the cycle
roundOffCycleTimeWakeup == MulFrac(cfg.cycle, cfg.pubW)

roundOffCycleTime == SubFrac(cfg.cycle, cfg.pubW)

\* variant: the transmission time is taken from the advanced deadline
TransmissionTimeAdvanced(ts) ==
  AddNs(AddNs(AddNs(TotalNs(ts), cfg.cycle), SubFrac(cfg.cycle, cfg.pubW)),
        cfg.qbv * 1000)

\* variant: the rest of the cycle is not added to the deadline
TransmissionTimeAtDeadline(ts) == AddNs(TotalNs(ts), cfg.qbv * 1000)

\* transmission_time as publisherETF computes it from nextnanosleeptime
TransmissionTime(ts) ==
  AddNs(AddNs(TotalNs(ts), roundOffCycleTime), cfg.qbv * 1000)

Alive == proc = "running"

\* the part of each thread routine before its while loop
ThreadStart(r) ==
  /\ Alive
  /\ pc[r] = "start"
  /\ \E now \in ClockReads(r) :
       /\ t0' = [t0 EXCEPT ![r] = now]
       /\ next' = [next EXCEPT ![r] = FirstDeadline(r, now)]
       /\ first' = [first EXCEPT ![r] = FirstDeadline(r, now)]
  /\ interval_ns' = [interval_ns EXCEPT ![r] = IntervalNs(r)]
  /\ IF r = "user"
     THEN IF \/ pubCounterData = NULL
             \/ \E i \in 0 .. REPEATED_NODECOUNTS - 1 : repeatedCounterData[i] = NULL
          THEN /\ proc' = "crashed"
               /\ UNCHANGED <<pc, pubCounterData, repeatedCounterData>>
          ELSE /\ pubCounterData' = 0
               /\ repeatedCounterData' =
                    [i \in 0 .. REPEATED_NODECOUNTS - 1 |-> repeatedCounterValue]
               /\ pc' = [pc EXCEPT ![r] = "loop"]
               /\ UNCHANGED proc
     ELSE /\ pc' = [pc EXCEPT ![r] = "loop"]
          /\ UNCHANGED <<proc, pubCounterData, repeatedCounterData>>
  /\ UNCHANGED <<cfg, changeStatus, running, exitCode, mainPc, threadId, sched, joinFailed, csvDump, lastWait, waits, fires,
                 transmission_time, published, subCounterData, recordVars, convVars>>

\* variant: the loop body runs without the wait
LoopTestNoWait(r) ==
  /\ Alive
  /\ pc[r] = "loop"
  /\ IF running
     THEN /\ waits[r] < MaxCycles
          /\ fires[r] < MaxCycles
          /\ pc' = [pc EXCEPT ![r] = "fire"]
     ELSE pc' = [pc EXCEPT ![r] = "done"]
  /\ UNCHANGED <<cfg, changeStatus, running, proc, exitCode, mainPc, threadId, sched, joinFailed, csvDump, next, interval_ns,
                 lastWait, first, t0, waits, fires, transmission_time, published, counterVars,
                 recordVars, convVars>>

\* variant: the loop does not test the flag
LoopTestIgnoresFlag(r) ==
  /\ Alive
  /\ pc[r] = "loop"
  /\ waits[r] < MaxCycles
  /\ pc' = [pc EXCEPT ![r] = "wait"]
  /\ UNCHANGED <<cfg, changeStatus, running, proc, exitCode, mainPc, threadId, sched, joinFailed, csvDump,
                 next, interval_ns, lastWait, first, t0, waits, fires,
                 transmission_time, published, counterVars, recordVars, convVars>>

\* while (running): one read of the flag per iteration
LoopTest(r) ==
  /\ Alive
  /\ pc[r] = "loop"
  /\ IF running
     THEN /\ waits[r] < MaxCycles
          /\ pc' = [pc EXCEPT ![r] = "wait"]
     ELSE pc' = [pc EXCEPT ![r] = "done"]
  /\ UNCHANGED <<cfg, changeStatus, running, proc, exitCode, mainPc, threadId, sched, joinFailed, csvDump, next, interval_ns,
                 lastWait, first, t0, waits, fires, transmission_time, published, counterVars,
                 recordVars, convVars>>

\* variant: the sleep never returns once the flag is false
WaitNeedsRunning(r) ==
  /\ Alive
  /\ running
  /\ pc[r] = "wait"
  /\ lastWait' = [lastWait EXCEPT ![r] = next[r]]
  /\ waits' = [waits EXCEPT ![r] = @ + 1]
  /\ pc' = [pc EXCEPT ![r] = "fire"]
  /\ UNCHANGED <<cfg, changeStatus, running, proc, exitCode, mainPc, threadId, sched, joinFailed, csvDump,
                 next, interval_ns, first, t0, fires, transmission_time, published, counterVars,
                 recordVars, convVars>>

\* clock_nanosleep(CLOCKID, TIMER_ABSTIME, &next, NULL) returns
Wait(r) ==
  /\ Alive
  /\ pc[r] = "wait"
  /\ lastWait' = [lastWait EXCEPT ![r] = next[r]]
  /\ waits' = [waits EXCEPT ![r] = @ + 1]
  /\ pc' = [pc EXCEPT ![r] = "fire"]
  /\ UNCHANGED <<cfg, changeStatus, running, proc, exitCode, mainPc, threadId, sched, joinFailed, csvDump, next, interval_ns,
                 first, t0, fires, transmission_time, published, counterVars, recordVars,
                 convVars>>

\* variant: the publisher thread writes the producer counter as well
PublisherFireWrites ==
  /\ Alive
  /\ pc["pub"] = "fire"
  /\ transmission_time' =
       AddNs(AddNs(TotalNs(next["pub"]), SubFrac(cfg.cycle, cfg.pubW)),
             cfg.qbv * 1000)
  /\ published' = pubCounterData
  /\ fires' = [fires EXCEPT !["pub"] = @ + 1]
  /\ next' = [next EXCEPT !["pub"] =
                nanoSecondFieldConversion(
                  [@ EXCEPT !.tv_nsec = @ + interval_ns["pub"]])]
  /\ pc' = [pc EXCEPT !["pub"] = "loop"]
  /\ pubCounterData' = IF pubCounterData = NULL THEN NULL ELSE pubCounterData + 1
  /\ UNCHANGED <<cfg, changeStatus, running, proc, exitCode, mainPc, threadId, sched, joinFailed, csvDump, interval_ns,
                 lastWait, first, t0, waits, repeatedCounterData, subCounterData,
                 recordVars, convVars>>

\* publisherETF: the loop body after the wait
PublisherFire ==
  /\ Alive
  /\ pc["pub"] = "fire"
  /\ transmission_time' = TransmissionTime(next["pub"])
  /\ published' = pubCounterData
  /\ fires' = [fires EXCEPT !["pub"] = @ + 1]
  /\ next' = [next EXCEPT !["pub"] = NextDeadline(@, interval_ns["pub"])]
  /\ pc' = [pc EXCEPT !["pub"] = "loop"]
  /\ UNCHANGED <<cfg, changeStatus, running, proc, exitCode, mainPc, threadId, sched, joinFailed, csvDump, interval_ns,
                 lastWait, first, t0, waits, counterVars, recordVars, convVars>>

\* variant: the subscriber's payload counts the producer counter up
SubscriberFireCountsProducer ==
  /\ Alive
  /\ pc["sub"] = "fire"
  /\ \/ UNCHANGED subCounterData
     \/ /\ subCounterData # NULL
        /\ \E v \in 1 .. MaxReceived : subCounterData' = v
  /\ pubCounterData' = IF pubCounterData = NULL THEN NULL ELSE pubCounterData + 1
  /\ fires' = [fires EXCEPT !["sub"] = @ + 1]
  /\ next' = [next EXCEPT !["sub"] = NextDeadline(@, interval_ns["sub"])]
  /\ pc' = [pc EXCEPT !["sub"] = "loop"]
  /\ UNCHANGED <<cfg, changeStatus, running, proc, exitCode, mainPc, threadId, sched, joinFailed, csvDump,
                 interval_ns, lastWait, first, t0, waits, transmission_time, published,
                 repeatedCounterData, recordVars, convVars>>

\* subscriber: the loop body after the wait; the transport callback stores the
\* counter of a received message, if one arrived, in the consumer cell
SubscriberFire ==
  /\ Alive
  /\ pc["sub"] = "fire"
  /\ \/ UNCHANGED subCounterData
     \/ /\ subCounterData # NULL
        /\ \E v \in 1 .. MaxReceived : subCounterData' = v
  /\ fires' = [fires EXCEPT !["sub"] = @ + 1]
  /\ next' = [next EXCEPT !["sub"] = NextDeadline(@, interval_ns["sub"])]
  /\ pc' = [pc EXCEPT !["sub"] = "loop"]
  /\ UNCHANGED <<cfg, changeStatus, running, proc, exitCode, mainPc, threadId, sched, joinFailed, csvDump, interval_ns,
                 lastWait, first, t0, waits, transmission_time, published, pubCounterData,
                 repeatedCounterData, recordVars, convVars>>

\* A measurement record and the flag, as one value the update functions map
PubRecord == [run |-> running, count |-> measurementsPublisher,
              value |-> publishCounterValue, stamp |-> publishTimestamp]
SubRecord(run) == [run |-> run, count |-> measurementsSubscriber,
                   value |-> subscribeCounterValue, stamp |-> subscribeTimestamp]

\* variant: the capacity test is off by one
updateMeasurementsPublisherOffByOne(m, start_time, counterValue) ==
  IF m.count > MAX_MEASUREMENTS
  THEN [m EXCEPT !.run = FALSE]
  ELSE [m EXCEPT !.stamp[m.count] = start_time,
                 !.value[m.count] = counterValue,
                 !.count = m.count + 1]

\* variant: every pair is stored in the first entry
updateMeasurementsPublisherOverwrites(m, start_time, counterValue) ==
  IF m.count >= MAX_MEASUREMENTS
  THEN [m EXCEPT !.run = FALSE]
  ELSE [m EXCEPT !.stamp[0] = start_time,
                 !.value[0] = counterValue,
                 !.count = m.count + 1]

\* variant: the index is stored in place of the counter value
updateMeasurementsPublisherStoresIndex(m, start_time, counterValue) ==
  IF m.count >= MAX_MEASUREMENTS
  THEN [m EXCEPT !.run = FALSE]
  ELSE [m EXCEPT !.stamp[m.count] = start_time,
                 !.value[m.count] = m.count,
                 !.count = m.count + 1]

updateMeasurementsPublisher(m, start_time, counterValue) ==
  IF m.count >= MAX_MEASUREMENTS
  THEN [m EXCEPT !.run = FALSE]
  ELSE [m EXCEPT !.stamp[m.count] = start_time,
                 !.value[m.count] = counterValue,
                 !.count = m.count + 1]

\* variant: the pair is stored but the count is not advanced
updateMeasurementsSubscriberNoCount(m, receive_time, counterValue) ==
  IF m.count >= MAX_MEASUREMENTS
  THEN [m EXCEPT !.run = FALSE]
  ELSE [m EXCEPT !.stamp[m.count] = receive_time,
                 !.value[m.count] = counterValue]

updateMeasurementsSubscriber(m, receive_time, counterValue) ==
  IF m.count >= MAX_MEASUREMENTS
  THEN [m EXCEPT !.run = FALSE]
  ELSE [m EXCEPT !.stamp[m.count] = receive_time,
                 !.value[m.count] = counterValue,
                 !.count = m.count + 1]

\* variant: the records are updated whether or not the log is enabled
UserFireLogsAlways ==
  /\ Alive
  /\ pc["user"] = "fire"
  /\ pubCounterData' = pubCounterData + 1
  /\ repeatedCounterData' =
       [i \in 0 .. REPEATED_NODECOUNTS - 1 |-> repeatedCounterData[i] + 1]
  /\ fires' = [fires EXCEPT !["user"] = @ + 1]
  /\ \E dataModificationTime \in ClockReads("user"),
        dataReceiveTime \in ClockReads("user") :
       LET p == IF TRUE
                THEN updateMeasurementsPublisher(PubRecord,
                       dataModificationTime, pubCounterData')
                ELSE PubRecord
           \* *subCounterData is read only when the log is enabled
           fault == subCounterData = NULL
           s == IF ~fault /\ subCounterData > 0
                THEN updateMeasurementsSubscriber(SubRecord(p.run),
                       dataReceiveTime, subCounterData)
                ELSE SubRecord(p.run)
       IN  /\ measurementsPublisher' = p.count
           /\ publishCounterValue' = p.value
           /\ publishTimestamp' = p.stamp
           /\ measurementsSubscriber' = s.count
           /\ subscribeCounterValue' = s.value
           /\ subscribeTimestamp' = s.stamp
           /\ running' = s.run
           /\ IF fault
              THEN /\ proc' = "crashed"
                   /\ UNCHANGED <<next, pc>>
              ELSE /\ next' = [next EXCEPT
                                 !["user"] = NextDeadline(@, interval_ns["user"])]
                   /\ pc' = [pc EXCEPT !["user"] = "loop"]
                   /\ UNCHANGED proc
  /\ UNCHANGED <<cfg, changeStatus, exitCode, mainPc, threadId, sched, joinFailed, csvDump, interval_ns, lastWait, first, t0,
                 waits, transmission_time, published, subCounterData, convVars>>

\* variant: the consumer counter is logged when it is zero as well
UserFireLogsZero ==
  /\ Alive
  /\ pc["user"] = "fire"
  /\ pubCounterData' = pubCounterData + 1
  /\ repeatedCounterData' =
       [i \in 0 .. REPEATED_NODECOUNTS - 1 |-> repeatedCounterData[i] + 1]
  /\ fires' = [fires EXCEPT !["user"] = @ + 1]
  /\ \E dataModificationTime \in ClockReads("user"),
        dataReceiveTime \in ClockReads("user") :
       LET p == IF cfg.csv
                THEN updateMeasurementsPublisher(PubRecord,
                       dataModificationTime, pubCounterData')
                ELSE PubRecord
           \* *subCounterData is read only when the log is enabled
           fault == cfg.csv /\ subCounterData = NULL
           s == IF ~fault /\ cfg.csv /\ subCounterData >= 0
                THEN updateMeasurementsSubscriber(SubRecord(p.run),
                       dataReceiveTime, subCounterData)
                ELSE SubRecord(p.run)
       IN  /\ measurementsPublisher' = p.count
           /\ publishCounterValue' = p.value
           /\ publishTimestamp' = p.stamp
           /\ measurementsSubscriber' = s.count
           /\ subscribeCounterValue' = s.value
           /\ subscribeTimestamp' = s.stamp
           /\ running' = s.run
           /\ IF fault
              THEN /\ proc' = "crashed"
                   /\ UNCHANGED <<next, pc>>
              ELSE /\ next' = [next EXCEPT
                                 !["user"] = NextDeadline(@, interval_ns["user"])]
                   /\ pc' = [pc EXCEPT !["user"] = "loop"]
                   /\ UNCHANGED proc
  /\ UNCHANGED <<cfg, changeStatus, exitCode, mainPc, threadId, sched, joinFailed, csvDump, interval_ns, lastWait, first, t0,
                 waits, transmission_time, published, subCounterData, convVars>>

\* userApplicationPubSub: the loop body after the wait
UserFire ==
  /\ Alive
  /\ pc["user"] = "fire"
  /\ pubCounterData' = pubCounterData + 1
  /\ repeatedCounterData' =
       [i \in 0 .. REPEATED_NODECOUNTS - 1 |-> repeatedCounterData[i] + 1]
  /\ fires' = [fires EXCEPT !["user"] = @ + 1]
  /\ \E dataModificationTime \in ClockReads("user"),
        dataReceiveTime \in ClockReads("user") :
       LET p == IF cfg.csv
                THEN updateMeasurementsPublisher(PubRecord,
                       dataModificationTime, pubCounterData')
                ELSE PubRecord
           \* *subCounterData is read only when the log is enabled
           fault == cfg.csv /\ subCounterData = NULL
           s == IF ~fault /\ cfg.csv /\ subCounterData > 0
                THEN updateMeasurementsSubscriber(SubRecord(p.run),
                       dataReceiveTime, subCounterData)
                ELSE SubRecord(p.run)
       IN  /\ measurementsPublisher' = p.count
           /\ publishCounterValue' = p.value
           /\ publishTimestamp' = p.stamp
           /\ measurementsSubscriber' = s.count
           /\ subscribeCounterValue' = s.value
           /\ subscribeTimestamp' = s.stamp
           /\ running' = s.run
           /\ IF fault
              THEN /\ proc' = "crashed"
                   /\ UNCHANGED <<next, pc>>
              ELSE /\ next' = [next EXCEPT
                                 !["user"] = NextDeadline(@, interval_ns["user"])]
                   /\ pc' = [pc EXCEPT !["user"] = "loop"]
                   /\ UNCHANGED proc
  /\ UNCHANGED <<cfg, changeStatus, exitCode, mainPc, threadId, sched, joinFailed, csvDump, interval_ns, lastWait, first, t0,
                 waits, transmission_time, published, subCounterData, convVars>>

\* variant: the handler flips the flag
stopHandlerToggle ==
  /\ Alive
  /\ running' = ~running
  /\ UNCHANGED <<cfg, changeStatus, proc, exitCode, mainPc, threadId, sched, joinFailed, csvDump, threadVars,
                 transmission_time, published, counterVars, recordVars, convVars>>

\* SIGINT or SIGTERM is delivered
stopHandler ==
  /\ Alive
  /\ running' = FALSE
  /\ UNCHANGED <<cfg, changeStatus, proc, exitCode, mainPc, threadId, sched, joinFailed, csvDump, threadVars,
                 transmission_time, published, counterVars, recordVars, convVars>>


\* -------------------------------------------------------------- main thread
\* variant: the cycle time is not checked
MainArgsNoCycleCheck ==
  /\ Alive
  /\ mainPc = "args"
  /\ IF ~cfg.interface
     THEN /\ proc' = "exited"
          /\ exitCode' = -1
          /\ UNCHANGED mainPc
     ELSE /\ mainPc' = "transport"
          /\ UNCHANGED <<proc, exitCode>>
  /\ UNCHANGED <<cfg, changeStatus, running, threadId, sched, joinFailed, csvDump, threadVars, transmission_time, published,
                 counterVars, recordVars, convVars>>

\* variant: the two rejections return 0
MainArgsReturnsZero ==
  /\ Alive
  /\ mainPc = "args"
  /\ IF ~cfg.interface \/ cfg.cycle < MIN_CYCLE_TIME_NS
     THEN /\ proc' = "exited"
          /\ exitCode' = 0
          /\ UNCHANGED mainPc
     ELSE /\ mainPc' = "transport"
          /\ UNCHANGED <<proc, exitCode>>
  /\ UNCHANGED <<cfg, changeStatus, running, threadId, sched, joinFailed, csvDump, threadVars,
                 transmission_time, published, counterVars, recordVars, convVars>>

\* main, after the command line is parsed: the interface and cycle time checks
MainArgs ==
  /\ Alive
  /\ mainPc = "args"
  /\ IF ~cfg.interface \/ cfg.cycle < MIN_CYCLE_TIME_NS
     THEN /\ proc' = "exited"
          /\ exitCode' = -1
          /\ UNCHANGED mainPc
     ELSE /\ mainPc' = "transport"
          /\ UNCHANGED <<proc, exitCode>>
  /\ UNCHANGED <<cfg, changeStatus, running, threadId, sched, joinFailed, csvDump, threadVars, transmission_time, published,
                 counterVars, recordVars, convVars>>

\* main: UA_malloc of config->pubsubTransportLayers
MainTransport ==
  /\ Alive
  /\ mainPc = "transport"
  /\ \/ /\ proc' = "exited"
        /\ exitCode' = 1
        /\ UNCHANGED mainPc
     \/ /\ mainPc' = "addDataSetField"
        /\ UNCHANGED <<proc, exitCode>>
  /\ UNCHANGED <<cfg, changeStatus, running, threadId, sched, joinFailed, csvDump, threadVars, transmission_time, published,
                 counterVars, recordVars, convVars>>

\* addDataSetField: the repeated counters are allocated first, then the counter;
\* an allocation failure returns at once and leaves the later cells NULL
addDataSetField ==
  /\ Alive
  /\ mainPc = "addDataSetField"
  /\ \/ UNCHANGED <<pubCounterData, repeatedCounterData>>
     \/ /\ \E k \in 1 .. REPEATED_NODECOUNTS - 1 :
             repeatedCounterData' =
               [i \in 0 .. REPEATED_NODECOUNTS - 1 |-> IF i < k THEN 0 ELSE NULL]
        /\ UNCHANGED pubCounterData
     \/ /\ repeatedCounterData' = [i \in 0 .. REPEATED_NODECOUNTS - 1 |-> 0]
        /\ UNCHANGED pubCounterData
     \/ /\ repeatedCounterData' = [i \in 0 .. REPEATED_NODECOUNTS - 1 |-> 0]
        /\ pubCounterData' = 0
  /\ mainPc' = "spawnPub"
  /\ UNCHANGED <<cfg, changeStatus, running, proc, exitCode, threadId, sched, joinFailed, csvDump, threadVars,
                 transmission_time, published, subCounterData, recordVars, convVars>>

\* addSubscribedVariables: allocates the consumer counter unless memory runs out
addSubscribedVariables ==
  /\ Alive
  /\ mainPc = "addSubscribedVariables"
  /\ \/ UNCHANGED subCounterData
     \/ subCounterData' = 0
  /\ mainPc' = "spawnSub"
  /\ UNCHANGED <<cfg, changeStatus, running, proc, exitCode, threadId, sched, joinFailed, csvDump, threadVars,
                 transmission_time, published, pubCounterData, repeatedCounterData,
                 recordVars, convVars>>

\* the scheduling threadCreation sets for role r on the calling thread
RoleSched(r) == [priority |-> cfg.priority[r], core |-> cfg.core[r]]

\* variant: the thread is created first, the caller's scheduling is set afterwards
threadCreationCreateFirst(r, after) ==
  /\ Alive
  /\ \/ /\ proc' = "exited"
        /\ exitCode' = 1
        /\ UNCHANGED <<mainPc, threadId, sched, pc>>
     \/ /\ sched' = [sched EXCEPT !["main"].priority = RoleSched(r).priority]
        /\ proc' = "exited"
        /\ exitCode' = 1
        /\ UNCHANGED <<mainPc, threadId, pc>>
     \/ /\ sched' = [sched EXCEPT !["main"] = RoleSched(r)]
        /\ threadId' = [threadId EXCEPT ![r] = "main"]
        /\ mainPc' = after
        /\ UNCHANGED <<proc, exitCode, pc>>
     \/ /\ sched' = [sched EXCEPT ![r] = sched["main"], !["main"] = RoleSched(r)]
        /\ threadId' = [threadId EXCEPT ![r] = r]
        /\ pc' = [pc EXCEPT ![r] = "start"]
        /\ mainPc' = after
        /\ UNCHANGED <<proc, exitCode>>
  /\ UNCHANGED <<cfg, changeStatus, running, joinFailed, csvDump, next, interval_ns, lastWait, first, t0,
                 waits, fires, transmission_time, published, counterVars, recordVars, convVars>>

\* variant: the result of pthread_setaffinity_np is tested after pthread_create
threadCreationLateCheck(r, after) ==
  /\ Alive
  /\ \/ /\ proc' = "exited"
        /\ exitCode' = 1
        /\ UNCHANGED <<mainPc, threadId, sched, pc>>
     \/ /\ sched' = [sched EXCEPT !["main"].priority = RoleSched(r).priority,
                                  ![r] = [@ EXCEPT !.priority = RoleSched(r).priority]]
        /\ threadId' = [threadId EXCEPT ![r] = r]
        /\ pc' = [pc EXCEPT ![r] = "start"]
        /\ proc' = "exited"
        /\ exitCode' = 1
        /\ UNCHANGED mainPc
     \/ /\ sched' = [sched EXCEPT !["main"] = RoleSched(r)]
        /\ threadId' = [threadId EXCEPT ![r] = "main"]
        /\ mainPc' = after
        /\ UNCHANGED <<proc, exitCode, pc>>
     \/ /\ sched' = [sched EXCEPT !["main"] = RoleSched(r), ![r] = RoleSched(r)]
        /\ threadId' = [threadId EXCEPT ![r] = r]
        /\ pc' = [pc EXCEPT ![r] = "start"]
        /\ mainPc' = after
        /\ UNCHANGED <<proc, exitCode>>
  /\ UNCHANGED <<cfg, changeStatus, running, joinFailed, csvDump, next, interval_ns, lastWait, first, t0,
                 waits, fires, transmission_time, published, counterVars, recordVars, convVars>>

\* variant: the calling thread gets its own priority and core back before the
\* function returns
threadCreationRestoresCaller(r, after) ==
  /\ Alive
  /\ \/ /\ proc' = "exited"
        /\ exitCode' = 1
        /\ UNCHANGED <<mainPc, threadId, sched, pc>>
     \/ /\ sched' = [sched EXCEPT !["main"].priority = RoleSched(r).priority]
        /\ proc' = "exited"
        /\ exitCode' = 1
        /\ UNCHANGED <<mainPc, threadId, pc>>
     \/ /\ threadId' = [threadId EXCEPT ![r] = "main"]
        /\ mainPc' = after
        /\ UNCHANGED <<proc, exitCode, pc, sched>>
     \/ /\ sched' = [sched EXCEPT ![r] = RoleSched(r)]
        /\ threadId' = [threadId EXCEPT ![r] = r]
        /\ pc' = [pc EXCEPT ![r] = "start"]
        /\ mainPc' = after
        /\ UNCHANGED <<proc, exitCode>>
  /\ UNCHANGED <<cfg, changeStatus, running, joinFailed, csvDump, next, interval_ns, lastWait, first, t0,
                 waits, fires, transmission_time, published, counterVars, recordVars, convVars>>

\* threadCreation called by the main thread for role r; then main goes to `after`.
\* The calling thread (pthread_self) gets the role's priority, then the role's
\* core, then pthread_create(&threadID, NULL, ...) starts the role thread, which
\* begins with the scheduling its creator has at that moment.
threadCreation(r, after) ==
  /\ Alive
  /\ \/ \* pthread_setschedparam fails: exit(1)
        /\ proc' = "exited"
        /\ exitCode' = 1
        /\ UNCHANGED <<mainPc, threadId, sched, pc>>
     \/ \* pthread_setaffinity_np fails: exit(1)
        /\ sched' = [sched EXCEPT !["main"].priority = RoleSched(r).priority]
        /\ proc' = "exited"
        /\ exitCode' = 1
        /\ UNCHANGED <<mainPc, threadId, pc>>
     \/ \* pthread_create fails: threadID still holds pthread_self()
        /\ sched' = [sched EXCEPT !["main"] = RoleSched(r)]
        /\ threadId' = [threadId EXCEPT ![r] = "main"]
        /\ mainPc' = after
        /\ UNCHANGED <<proc, exitCode, pc>>
     \/ /\ LET caller == [sched EXCEPT !["main"] = RoleSched(r)]
           IN  sched' = [caller EXCEPT ![r] = caller["main"]]
        /\ threadId' = [threadId EXCEPT ![r] = r]
        /\ pc' = [pc EXCEPT ![r] = "start"]
        /\ mainPc' = after
        /\ UNCHANGED <<proc, exitCode>>
  /\ UNCHANGED <<cfg, changeStatus, running, joinFailed, csvDump, next, interval_ns, lastWait, first, t0,
                 waits, fires, transmission_time, published, counterVars, recordVars, convVars>>

\* the group of a role does not become operational: the library never calls
\* addPubSubApplicationCallback for it and its callback id stays 0
GroupNotOperational(after) ==
  /\ Alive
  /\ mainPc' = after
  /\ UNCHANGED <<cfg, changeStatus, running, proc, exitCode, threadId, sched, joinFailed, csvDump,
                 threadVars, transmission_time, published, counterVars, recordVars, convVars>>

\* the node ids of the two groups
writerGroupIdent == "writerGroup"
readerGroupIdentifier == "readerGroup"

\* addPubSubApplicationCallback(server, identifier, callback, data, interval_ms,
\* callbackId): the thread arguments are filled in, the identifier selects the
\* routine, priority and core, *callbackId takes what threadCreation returns,
\* and the function returns UA_STATUSCODE_GOOD (main goes on to `after`)
addPubSubApplicationCallback(identifier, after) ==
  IF identifier = writerGroupIdent
  THEN threadCreation("pub", after)
  ELSE threadCreation("sub", after)

\* the writer group becomes operational: the library calls the group's
\* addCustomCallback with the writer group's identifier
SpawnPublisher ==
  /\ mainPc = "spawnPub"
  /\ IF "pub" \in cfg.groups
     THEN addPubSubApplicationCallback(writerGroupIdent, "addSubscribedVariables")
     ELSE GroupNotOperational("addSubscribedVariables")

\* the reader group becomes operational: the library calls the group's
\* addCustomCallback with the reader group's identifier
SpawnSubscriber ==
  /\ mainPc = "spawnSub"
  /\ IF "sub" \in cfg.groups
     THEN addPubSubApplicationCallback(readerGroupIdentifier, "spawnUser")
     ELSE GroupNotOperational("spawnUser")

\* main: threadCreation of userApplicationPubSub
SpawnUserApplication == mainPc = "spawnUser" /\ threadCreation("user", "run")

\* UA_Server_run(server, &running) returns once running is false, or with a bad
\* status at any moment (its startup or its shutdown has failed)
ServerRun ==
  /\ Alive
  /\ mainPc = "run"
  /\ ~running \/ cfg.server # UA_STATUSCODE_GOOD
  /\ mainPc' = "joinUser"
  /\ UNCHANGED <<cfg, changeStatus, running, proc, exitCode, threadId, sched, joinFailed, csvDump,
                 threadVars, transmission_time, published, counterVars, recordVars, convVars>>

\* pthread_join(id, NULL) can return: the thread has ended, or the id is the
\* caller's own (EDEADLK) or names no thread
JoinReturns(id) == id \in Roles => pc[id] = "done"

\* pthread_join(id, NULL) returns nonzero: id is not a thread that was created
JoinFails(id) == id \notin Roles

\* what main writes to the two files when enableCsvLog is set: one line
\* (counter value, timestamp) for each stored entry, in index order
CsvLines ==
  [written    |-> TRUE,
   publisher  |-> [i \in 1 .. measurementsPublisher |->
                     <<publishCounterValue[i - 1], publishTimestamp[i - 1]>>],
   subscriber |-> [i \in 1 .. measurementsSubscriber |->
                     <<subscribeCounterValue[i - 1], subscribeTimestamp[i - 1]>>]]

\* variant: main does not wait for the user thread
JoinUserNoWait ==
  /\ Alive
  /\ mainPc = "joinUser"
  /\ joinFailed' = IF JoinFails(threadId["user"])
                   THEN joinFailed \cup {"user"} ELSE joinFailed
  /\ csvDump' = IF cfg.csv THEN CsvLines ELSE csvDump
  /\ mainPc' = "delete"
  /\ UNCHANGED <<cfg, changeStatus, running, proc, exitCode, threadId, sched, threadVars,
                 transmission_time, published, counterVars, recordVars, convVars>>

\* variant: a failed join of the user thread ends the process
JoinUserFatal ==
  /\ Alive
  /\ mainPc = "joinUser"
  /\ JoinReturns(threadId["user"])
  /\ IF JoinFails(threadId["user"])
     THEN /\ joinFailed' = joinFailed \cup {"user"}
          /\ proc' = "exited"
          /\ exitCode' = 1
          /\ UNCHANGED <<mainPc, csvDump>>
     ELSE /\ csvDump' = IF cfg.csv THEN CsvLines ELSE csvDump
          /\ mainPc' = "delete"
          /\ UNCHANGED <<joinFailed, csvDump, proc, exitCode>>
  /\ UNCHANGED <<cfg, changeStatus, running, threadId, sched, threadVars,
                 transmission_time, published, counterVars, recordVars, convVars>>

\* main: pthread_join(userThreadID, NULL); a failure is logged only
JoinUser ==
  /\ Alive
  /\ mainPc = "joinUser"
  /\ JoinReturns(threadId["user"])
  /\ joinFailed' = IF JoinFails(threadId["user"])
                   THEN joinFailed \cup {"user"} ELSE joinFailed
  /\ csvDump' = IF cfg.csv THEN CsvLines ELSE csvDump
  /\ mainPc' = "delete"
  /\ UNCHANGED <<cfg, changeStatus, running, proc, exitCode, threadId, sched, threadVars,
                 transmission_time, published, counterVars, recordVars, convVars>>

\* UA_Server_delete: the library deregisters the callbacks of both groups
DeregistrationAtDelete == mainPc = "delete"

\* removePubSubApplicationCallback for both groups: joins the thread unless the
\* callback id is 0; a failure is logged only
removePubSubApplicationCallback ==
  /\ Alive
  /\ DeregistrationAtDelete
  /\ threadId["pub"] # NoThread => JoinReturns(threadId["pub"])
  /\ threadId["sub"] # NoThread => JoinReturns(threadId["sub"])
  /\ joinFailed' = joinFailed \cup
       {r \in {"pub", "sub"} : threadId[r] # NoThread /\ JoinFails(threadId[r])}
  /\ mainPc' = "free"
  /\ UNCHANGED <<cfg, changeStatus, running, proc, exitCode, threadId, sched, csvDump, threadVars,
                 transmission_time, published, counterVars, recordVars, convVars>>

\* main: the counter cells are freed
MainFree ==
  /\ Alive
  /\ mainPc = "free"
  /\ pubCounterData' = NULL
  /\ repeatedCounterData' = [i \in 0 .. REPEATED_NODECOUNTS - 1 |-> NULL]
  /\ subCounterData' = NULL
  /\ mainPc' = "return"
  /\ UNCHANGED <<cfg, changeStatus, running, proc, exitCode, threadId, sched, joinFailed, csvDump,
                 threadVars, transmission_time, published, recordVars, convVars>>

\* main: return (int)retval, retval being the status of UA_Server_run
MainReturn ==
  /\ Alive
  /\ mainPc = "return"
  /\ proc' = "exited"
  /\ exitCode' = cfg.server
  /\ UNCHANGED <<cfg, changeStatus, running, mainPc, threadId, sched, joinFailed, csvDump, threadVars,
                 transmission_time, published, counterVars, recordVars, convVars>>

\* ---- the library asks for another callback interval (a group's publishing
\* or subscribing interval is reconfigured while the group is registered)
\* the node id of the group a role thread serves
GroupIdent(r) == IF r = "pub" THEN writerGroupIdent ELSE readerGroupIdentifier

\* variant: the new interval is handed to the thread of the group
changePubSubApplicationCallbackIntervalApplied(identifier, callbackId, interval_ms) ==
  /\ Alive
  /\ Len(changeStatus) < MaxIntervalChanges
  /\ changeStatus' = Append(changeStatus, UA_STATUSCODE_GOOD)
  /\ interval_ns' = [interval_ns EXCEPT ![callbackId] = interval_ms]
  /\ UNCHANGED <<cfg, running, proc, exitCode, mainPc, threadId, sched, joinFailed, csvDump,
                 pc, next, lastWait, first, t0, waits, fires, transmission_time, published,
                 counterVars, recordVars, convVars>>

\* changePubSubApplicationCallbackInterval(server, identifier, callbackId,
\* interval_ms): return UA_STATUSCODE_GOOD, nothing else
changePubSubApplicationCallbackInterval(identifier, callbackId, interval_ms) ==
  /\ Alive
  /\ Len(changeStatus) < MaxIntervalChanges
  /\ changeStatus' = Append(changeStatus, UA_STATUSCODE_GOOD)
  /\ UNCHANGED <<cfg, running, proc, exitCode, mainPc, threadId, sched, joinFailed, csvDump,
                 threadVars, transmission_time, published, counterVars, recordVars, convVars>>

\* the intervals asked for: half the cycle time
NewIntervals == {cfg.cycle \div 2}

\* the call reaches the registered callback of a group whose thread exists
ChangeInterval ==
  \E r \in {"pub", "sub"}, interval_ms \in NewIntervals :
    /\ threadId[r] = r
    /\ mainPc \in {"addSubscribedVariables", "spawnSub", "spawnUser", "run", "joinUser"}
    /\ changePubSubApplicationCallbackInterval(GroupIdent(r), threadId[r], interval_ms)

\* ---------------------------------------------------------- specification
ZeroTime == [tv_sec |-> 0, tv_nsec |-> 0]

InitProgram(c) ==
  /\ cfg = c
  /\ running = TRUE
  /\ proc = "running"
  /\ exitCode = 0
  /\ mainPc = "args"
  /\ threadId = [r \in Roles |-> NoThread]
  /\ sched = [t \in Roles \cup {"main"} |-> InitialSched]
  /\ joinFailed = {}
  /\ csvDump = [written |-> FALSE, publisher |-> <<>>, subscriber |-> <<>>]
  /\ pc = [r \in Roles |-> "none"]
  /\ next = [r \in Roles |-> ZeroTime]
  /\ interval_ns = [r \in Roles |-> 0]
  /\ lastWait = [r \in Roles |-> ZeroTime]
  /\ first = [r \in Roles |-> ZeroTime]
  /\ t0 = [r \in Roles |-> ZeroTime]
  /\ waits = [r \in Roles |-> 0]
  /\ fires = [r \in Roles |-> 0]
  /\ transmission_time = NoTime
  /\ published = NULL
  /\ changeStatus = <<>>
  /\ pubCounterData = NULL
  /\ repeatedCounterData = [i \in 0 .. REPEATED_NODECOUNTS - 1 |-> NULL]
  /\ subCounterData = NULL
  /\ measurementsPublisher = 0
  /\ publishCounterValue = [i \in 0 .. MAX_MEASUREMENTS - 1 |-> 0]
  /\ publishTimestamp = [i \in 0 .. MAX_MEASUREMENTS - 1 |-> ZeroTime]
  /\ measurementsSubscriber = 0
  /\ subscribeCounterValue = [i \in 0 .. MAX_MEASUREMENTS - 1 |-> 0]
  /\ subscribeTimestamp = [i \in 0 .. MAX_MEASUREMENTS - 1 |-> ZeroTime]

Init ==
  /\ \E c \in Configs : InitProgram(c)
  /\ tsIn = ZeroTime
  /\ tsOut = ZeroTime
  /\ convDone = FALSE

Next ==
  \/ MainArgs
  \/ MainTransport
  \/ addDataSetField
  \/ addSubscribedVariables
  \/ SpawnPublisher
  \/ SpawnSubscriber
  \/ SpawnUserApplication
  \/ ServerRun
  \/ JoinUser
  \/ removePubSubApplicationCallback
  \/ MainFree
  \/ MainReturn
  \/ stopHandler
  \/ \E r \in Roles : ThreadStart(r)
  \/ \E r \in Roles : LoopTest(r)
  \/ \E r \in Roles : Wait(r)
  \/ PublisherFire
  \/ SubscriberFire
  \/ UserFire

Spec == Init /\ [][Next]_vars

\* ---- the program under fair scheduling: every role thread that can take a
\* step eventually takes one (the clock reaches each deadline, the scheduler
\* runs each thread), in the default configuration with the log enabled
RoleStep(r) ==
  \/ ThreadStart(r)
  \/ LoopTest(r)
  \/ Wait(r)
  \/ r = "pub" /\ PublisherFire
  \/ r = "sub" /\ SubscriberFire
  \/ r = "user" /\ UserFire

LiveConfigs ==
  {c \in Configs : c.interface /\ c.csv /\ c.cycle = DEFAULT_CYCLE_TIME_NS}

InitLive ==
  /\ \E c \in LiveConfigs : InitProgram(c)
  /\ tsIn = ZeroTime
  /\ tsOut = ZeroTime
  /\ convDone = FALSE

SpecLive == InitLive /\ [][Next]_vars /\ \A r \in Roles : WF_vars(RoleStep(r))

\* ---- the program without the log, every thread started in the same second,
\* with a library that may ask for another callback interval while the groups
\* are registered
ChangeConfigs ==
  {c \in Configs : c.interface /\ ~c.csv /\ c.clock = SameSecond}

InitChange ==
  /\ \E c \in ChangeConfigs : InitProgram(c)
  /\ tsIn = ZeroTime
  /\ tsOut = ZeroTime
  /\ convDone = FALSE

NextChange ==
  \/ Next
  \/ ChangeInterval

SpecChange == InitChange /\ [][NextChange]_vars

\* ---- the program on a time line: main has created its threads and every
\* thread has read the clock before the first deadline passes (the first
\* deadline lies SECONDS_SLEEP seconds after the read), sleeps end in the
\* order of their deadlines, and a payload runs at its deadline, before any
\* later sleep ends
Before(a, b) ==
  \/ a.tv_sec < b.tv_sec
  \/ a.tv_sec = b.tv_sec /\ a.tv_nsec <= b.tv_nsec

DeadlineReached(r) ==
  /\ mainPc \in {"run", "joinUser", "delete", "free", "return"}
  /\ \A q \in Roles \ {r} :
       /\ pc[q] \notin {"start", "fire"}
       /\ pc[q] \in {"loop", "wait"} => Before(next[r], next[q])

WaitTimed(r) ==
  /\ DeadlineReached(r)
  /\ Wait(r)

NextTimed ==
  \/ MainArgs
  \/ MainTransport
  \/ addDataSetField
  \/ addSubscribedVariables
  \/ SpawnPublisher
  \/ SpawnSubscriber
  \/ SpawnUserApplication
  \/ ServerRun
  \/ JoinUser
  \/ removePubSubApplicationCallback
  \/ MainFree
  \/ MainReturn
  \/ stopHandler
  \/ \E r \in Roles : ThreadStart(r)
  \/ \E r \in Roles : LoopTest(r)
  \/ \E r \in Roles : WaitTimed(r)
  \/ PublisherFire
  \/ SubscriberFire
  \/ UserFire

SpecTimed == Init /\ [][NextTimed]_vars

\* ---- nanoSecondFieldConversion on its own: every call with an input of ConvInputs
ConvSeconds == 0 .. 3
ConvNanos == {0, 1, 500000000, 999999998, 999999999, 1000000000, 1000000001,
              1500000000, 1999999999, 2000000000, 2000000001, 2147483647,
              1234567890, 999999, 1000000, 2099999999}
ConvInputs == {[tv_sec |-> s, tv_nsec |-> n] : s \in ConvSeconds, n \in ConvNanos}

InitConv ==
  /\ InitProgram(CHOOSE c \in Configs : c.interface /\ c.cycle = DEFAULT_CYCLE_TIME_NS)
  /\ tsIn \in ConvInputs
  /\ tsOut = tsIn
  /\ convDone = FALSE

ConvCall ==
  /\ ~convDone
  /\ tsOut' = nanoSecondFieldConversion(tsOut)
  /\ convDone' = TRUE
  /\ UNCHANGED <<cfg, changeStatus, running, proc, exitCode, mainPc, threadId, sched, joinFailed, csvDump, threadVars,
                 transmission_time, published, counterVars, recordVars, tsIn>>

NextConv == ConvCall

SpecConv == InitConv /\ [][NextConv]_vars


\* ------------------------------------------------------------------ claims
Started(r) == pc[r] \in {"loop", "wait", "fire", "done"}
Normalized(ts) == 0 <= ts.tv_nsec /\ ts.tv_nsec < SECONDS

\* first plus k periods of p nanoseconds, as a normalized timespec
Plus(ts, k, p) ==
  LET n == ts.tv_nsec + k * (p % SECONDS)
  IN  [tv_sec  |-> ts.tv_sec + k * (p \div SECONDS) + (n \div SECONDS),
       tv_nsec |-> n % SECONDS]

\* C1: a call of nanoSecondFieldConversion with tv_nsec >= 10^9 returns
\* 0 <= tv_nsec' < 10^9, tv_sec' = tv_sec + floor(tv_nsec / 10^9) and
\* tv_nsec' = tv_nsec mod 10^9.
C1_NormalizeCarries ==
  (convDone /\ tsIn.tv_nsec >= SECONDS) =>
    /\ Normalized(tsOut)
    /\ tsOut.tv_sec = tsIn.tv_sec + (tsIn.tv_nsec \div SECONDS)
    /\ tsOut.tv_nsec = tsIn.tv_nsec % SECONDS

C1_Witness ==
  convDone /\ tsIn.tv_nsec >= 2 * SECONDS /\ tsOut.tv_sec = tsIn.tv_sec + 2

\* C2: in every role loop the timespec given to clock_nanosleep has
\* 0 <= tv_nsec < 10^9: after the first assignment and after every addition of
\* the period, before the deadline is used to sleep.
C2_WaitDeadlineNormalized ==
  \A r \in Roles :
    /\ pc[r] \in {"loop", "wait"} => Normalized(next[r])
    /\ waits[r] > 0 => Normalized(lastWait[r])

C2_Witness ==
  \E r \in Roles :
    /\ waits[r] >= 2
    /\ lastWait[r].tv_sec >= first[r].tv_sec + 2
    /\ interval_ns[r] > SECONDS

\* C3: the deadline of the k-th wait of a role is its first deadline plus k
\* periods exactly, as a nanosecond total, whatever the other threads do in
\* between.
C3_NoDrift ==
  \A r \in Roles :
    /\ pc[r] \in {"loop", "wait", "done"} =>
         next[r] = Plus(first[r], waits[r], IntervalNs(r))
    /\ pc[r] = "fire" => next[r] = lastWait[r]
    /\ waits[r] > 0 => lastWait[r] = Plus(first[r], waits[r] - 1, IntervalNs(r))

C3_Witness ==
  \E r \in Roles :
    /\ waits[r] = MaxCycles
    /\ lastWait[r].tv_sec > first[r].tv_sec
    /\ lastWait[r].tv_nsec # 0

\* C4: a role invokes its payload exactly once per deadline: there is one
\* payload invocation between two consecutive waits, so a role that completed
\* N waits and is back at its loop test has invoked its payload N times.
C4_OncePerDeadline ==
  \A r \in Roles :
    /\ pc[r] \in {"none", "start"} => waits[r] = 0 /\ fires[r] = 0
    /\ pc[r] \in {"loop", "wait", "done"} => fires[r] = waits[r]
    /\ (pc[r] = "fire" /\ proc # "crashed") => waits[r] = fires[r] + 1

C4_Witness ==
  \A r \in Roles : pc[r] = "loop" /\ waits[r] = MaxCycles /\ fires[r] = MaxCycles

\* C5: after the user application has completed N cycles every producer counter
\* is its value at the start of the loop plus N (the counter N, each repeated
\* counter 10 + N), under every interleaving with the other threads, for as long
\* as the counter cells exist (main frees them after the thread has ended).
C5_SingleWriterCounter ==
  (Started("user") /\ mainPc # "return") =>
    /\ pubCounterData = fires["user"]
    /\ \A i \in 0 .. REPEATED_NODECOUNTS - 1 :
         repeatedCounterData[i] = repeatedCounterValue + fires["user"]
    /\ pc["user"] \in {"loop", "wait", "done"} => pubCounterData = waits["user"]

C5_Witness ==
  /\ pc["user"] = "loop"
  /\ waits["user"] = MaxCycles
  /\ pubCounterData = MaxCycles
  /\ fires["pub"] >= 1
  /\ fires["sub"] >= 1

\* C6 (as claimed): in every role the first deadline has tv_sec = t0.tv_sec + 5
\* and tv_nsec = wake-up fraction * period of that role, normalized, for every
\* wake-up fraction in [0,1).
C6_FirstDeadlineEveryRole ==
  \A r \in Roles :
    Started(r) =>
      first[r] = nanoSecondFieldConversion(
                   [tv_sec  |-> t0[r].tv_sec + SECONDS_SLEEP,
                    tv_nsec |-> MulFrac(IntervalNs(r),
                                  IF r = "pub" THEN cfg.pubW
                                  ELSE IF r = "sub" THEN cfg.subW
                                  ELSE cfg.userW)])

\* (ceiling of x * f) for the fraction f: what x - x * f leaves out of x
CeilMul(x, f) ==
  MulFrac(x, f) + (IF ((x % f.den) * f.num) % f.den = 0 THEN 0 ELSE 1)

\* the deadline d plus n nanoseconds, as a nanosecond total
After(d, n) == [hi |-> d.tv_sec + ((d.tv_nsec + n) \div SECONDS),
                lo |-> (d.tv_nsec + n) % SECONDS]

\* C7: in every producer cycle the transmission time written before the
\* transmit callback is next + (P - P * phase) + qbvOffset * 1000, where next
\* is the deadline the producer waited for in that cycle.
C7_TransmissionTime ==
  (fires["pub"] > 0 /\ pc["pub"] \in {"loop", "wait", "done"}) =>
    transmission_time =
      After(lastWait["pub"],
            (cfg.cycle - CeilMul(cfg.cycle, cfg.pubW)) + cfg.qbv * 1000)

C7_Witness ==
  /\ fires["pub"] >= 2
  /\ pc["pub"] = "loop"
  /\ CeilMul(cfg.cycle, cfg.pubW) # MulFrac(cfg.cycle, cfg.pubW)
  /\ transmission_time.hi > lastWait["pub"].tv_sec

DefaultTiming ==
  /\ cfg.cycle = DEFAULT_CYCLE_TIME_NS
  /\ cfg.pubW = DEFAULT_pubWakeupPercentage
  /\ cfg.qbv = DEFAULT_QBV_OFFSET

\* the start T of the cycle whose producer wake deadline is d = T + 0.6 * P
CycleStart(d) == [d EXCEPT !.tv_nsec = @ - MulFrac(cfg.cycle, cfg.pubW)]

\* C8 (as claimed): with P = 250,000 ns, fraction 0.6 and offset 125,000 ns the
\* transmission time of the cycle starting at T is T + P + (P - P * 0.6) +
\* offset = T + 475,000 ns.
C8_TransmissionAsClaimed ==
  (DefaultTiming /\ fires["pub"] > 0 /\ pc["pub"] \in {"loop", "wait", "done"}) =>
    transmission_time =
      After(CycleStart(lastWait["pub"]),
            cfg.cycle + (cfg.cycle - MulFrac(cfg.cycle, cfg.pubW)) + cfg.qbv * 1000)

\* C8 (amended): with P = 250,000 ns, fraction 0.6 and offset 125,000 ns the
\* transmission time of the cycle starting at T is T + P + offset =
\* T + 375,000 ns: the next cycle boundary plus the offset.
C8_TransmissionNextBoundary ==
  (DefaultTiming /\ fires["pub"] > 0 /\ pc["pub"] \in {"loop", "wait", "done"}) =>
    /\ transmission_time = After(CycleStart(lastWait["pub"]), 375000)
    /\ transmission_time =
         After(CycleStart(lastWait["pub"]), cfg.cycle + cfg.qbv * 1000)

C8_Witness ==
  /\ DefaultTiming
  /\ fires["pub"] >= 2
  /\ pc["pub"] = "loop"
  /\ lastWait["pub"].tv_nsec = 400000
  /\ transmission_time = [hi |-> lastWait["pub"].tv_sec, lo |-> 625000]

\* a step of the user application's loop body with the log enabled
UserLogStep == cfg.csv /\ fires'["user"] = fires["user"] + 1

\* C9: the count of each measurement record never exceeds MAX_MEASUREMENTS; an
\* append attempted at count = capacity stores nothing, leaves the count and
\* sets running to false, so that capacity + 1 appends leave capacity records
\* and running false.
C9_RecordOverflow ==
  /\ [](/\ measurementsPublisher <= MAX_MEASUREMENTS
        /\ measurementsSubscriber <= MAX_MEASUREMENTS
        /\ cfg.csv => measurementsPublisher
                        = IF fires["user"] < MAX_MEASUREMENTS
                          THEN fires["user"] ELSE MAX_MEASUREMENTS
        /\ (cfg.csv /\ fires["user"] > MAX_MEASUREMENTS) => ~running)
  /\ [][(UserLogStep /\ measurementsPublisher = MAX_MEASUREMENTS) =>
          /\ ~running'
          /\ UNCHANGED <<measurementsPublisher, publishCounterValue,
                         publishTimestamp>>]_vars
  /\ [][(UserLogStep /\ measurementsSubscriber = MAX_MEASUREMENTS
           /\ subCounterData > 0) =>
          /\ ~running'
          /\ UNCHANGED <<measurementsSubscriber, subscribeCounterValue,
                         subscribeTimestamp>>]_vars

C9_Witness ==
  /\ cfg.csv
  /\ fires["user"] = MAX_MEASUREMENTS + 1
  /\ measurementsPublisher = MAX_MEASUREMENTS
  /\ measurementsSubscriber = MAX_MEASUREMENTS
  /\ publishCounterValue[MAX_MEASUREMENTS - 1] = MAX_MEASUREMENTS
  /\ ~running

\* C10: a cycle time below 0.125 ms makes main return a nonzero status before
\* any threadCreation call, so that no role thread exists; a run with an
\* interface and a cycle time of 0.125 ms or more is not rejected.
C10_MinimumCycleTime ==
  /\ cfg.cycle < MIN_CYCLE_TIME_NS =>
       /\ mainPc = "args"
       /\ \A r \in Roles : pc[r] = "none" /\ threadId[r] = NoThread
       /\ proc = "exited" => exitCode # 0
  /\ (cfg.interface /\ cfg.cycle >= MIN_CYCLE_TIME_NS) =>
       ~(proc = "exited" /\ mainPc = "args")

C10_Witness ==
  /\ cfg.interface
  /\ cfg.cycle < MIN_CYCLE_TIME_NS
  /\ proc = "exited"
  /\ exitCode = -1

\* C11: main returns a nonzero status when the interface is missing or the cycle
\* time is below the minimum, in both cases before any threadCreation call (no
\* role thread exists and no thread's scheduling was touched); when main returns
\* at its end after UA_Server_run gave a good status, the status is zero.
C11_ExitStatus ==
  /\ (~cfg.interface \/ cfg.cycle < MIN_CYCLE_TIME_NS) =>
       /\ mainPc = "args"
       /\ \A r \in Roles : pc[r] = "none" /\ threadId[r] = NoThread
       /\ \A t \in DOMAIN sched : sched[t] = InitialSched
       /\ proc = "exited" => exitCode # 0
  /\ (proc = "exited" /\ mainPc = "return" /\ cfg.server = UA_STATUSCODE_GOOD) =>
       exitCode = 0

C11_Witness ==
  /\ proc = "exited"
  /\ mainPc = "return"
  /\ cfg.server = UA_STATUSCODE_GOOD
  /\ exitCode = 0
  /\ \A r \in Roles : pc[r] = "done" /\ fires[r] >= 1

\* the position of main at which role r is spawned
SpawnPc == [pub |-> "spawnPub", sub |-> "spawnSub", user |-> "spawnUser"]

\* C12: when threadCreation ends the process (pthread_setschedparam or
\* pthread_setaffinity_np was rejected) the exit status is nonzero and the role
\* thread requested by that call was never created: pthread_create was not
\* called for it, it has no handle and never ran.
C12_SpawnFatal ==
  \A r \in Roles :
    (proc = "exited" /\ mainPc = SpawnPc[r]) =>
      /\ exitCode # 0
      /\ pc[r] = "none"
      /\ threadId[r] = NoThread
      /\ sched[r] = InitialSched
      /\ waits[r] = 0 /\ fires[r] = 0

\* the affinity call of the third spawn is rejected after its priority call
\* succeeded, two role threads exist already
C12_Witness ==
  /\ proc = "exited"
  /\ exitCode = 1
  /\ mainPc = "spawnUser"
  /\ sched["main"].priority = cfg.priority["user"]
  /\ sched["main"].core # cfg.core["user"]
  /\ pc["user"] = "none"
  /\ pc["pub"] # "none" /\ pc["sub"] # "none"

\* C13 (as claimed): whenever the process has ended fatally (the transport
\* table could not be allocated, or a priority or affinity call of one of the
\* three spawns was rejected) no role thread has invoked its payload.
C13_FatalBeforePayload ==
  (proc = "exited" /\ mainPc \in {"transport", "spawnPub", "spawnSub", "spawnUser"}) =>
    \A r \in Roles : fires[r] = 0

\* C14: under fair scheduling of the role threads, from any state in which
\* running is false and a role thread exists, that thread eventually leaves its
\* loop and ends (or the whole process has ended); this holds whether the flag
\* was cleared by a signal or by the overflow of a measurement record.
C14_ShutdownLiveness ==
  \A r \in Roles :
    (~running /\ pc[r] # "none") ~> (pc[r] = "done" \/ proc # "running")

\* all three threads have run and ended while the process is still alive
C14_Witness ==
  /\ ~running
  /\ proc = "running"
  /\ mainPc = "run"
  /\ \A r \in Roles : pc[r] = "done" /\ fires[r] >= 1

\* C15: a role thread begins a wait only directly after a loop test that read
\* running as true, so once the flag is false no thread begins another wait; a
\* thread inside a wait does nothing but complete it (it reads the flag only at
\* the next loop test); every completed wait is followed by exactly one payload
\* and then by the loop test, which ends the thread when the flag is false.
\* Hence after the flag is false each role completes at most the one wait it
\* had begun and at most one payload before it ends.
C15_BoundedShutdownResponse ==
  [][\A r \in Roles :
       /\ (pc'[r] = "wait" /\ pc[r] # "wait") => (running /\ pc[r] = "loop")
       /\ waits'[r] # waits[r] => (pc[r] = "wait" /\ waits'[r] = waits[r] + 1)
       /\ (pc[r] = "wait" /\ pc'[r] # "wait") =>
            (pc'[r] = "fire" /\ waits'[r] = waits[r] + 1)
       /\ fires'[r] # fires[r] => (pc[r] = "fire" /\ fires'[r] = fires[r] + 1)
       /\ (pc[r] = "fire" /\ pc'[r] # "fire") =>
            (pc'[r] = "loop" /\ fires'[r] = fires[r] + 1)
       /\ (~running /\ pc[r] = "loop" /\ pc'[r] # "loop") => pc'[r] = "done"
       /\ pc[r] = "done" => pc'[r] = "done"]_vars

\* the flag was cleared while the user thread was about to wait in its first
\* cycle: the thread still completed that wait and that payload, alone, and ended
C15_Witness ==
  /\ ~running
  /\ pc["user"] = "done"
  /\ waits["user"] = 1
  /\ fires["user"] = 1
  /\ measurementsPublisher = 1

\* C16: running is true when the program starts; a step changes it only from
\* true to false, and only if the step is the signal handler (which changes
\* nothing else) or a payload of the user application with the log enabled in
\* which a measurement record is at its capacity; once false it stays false.
\* Each loop iteration of a role thread passes the loop test, the one place
\* where the flag is read, exactly once: a wait begins only from the test and
\* the test is reached again only through that iteration's wait and payload.
C16_RunningMonotone ==
  /\ running = TRUE
  /\ [][/\ running' # running =>
             /\ running /\ ~running'
             /\ \/ UNCHANGED <<cfg, changeStatus, proc, exitCode, mainPc, threadId, sched,
                               joinFailed, csvDump, threadVars,
                               transmission_time, published, counterVars, recordVars,
                               convVars>>
                \/ /\ fires'["user"] = fires["user"] + 1
                   /\ cfg.csv
                   /\ \/ measurementsPublisher >= MAX_MEASUREMENTS
                      \/ subCounterData > 0 /\ measurementsSubscriber >= MAX_MEASUREMENTS
        /\ ~running => ~running'
        /\ \A r \in Roles :
             /\ (pc'[r] = "wait" /\ pc[r] # "wait") => pc[r] = "loop"
             /\ (pc'[r] = "loop" /\ pc[r] # "loop") => pc[r] \in {"start", "fire"}
             /\ (pc[r] = "loop" /\ pc'[r] # "loop") => pc'[r] \in {"wait", "done"}
       ]_vars

\* without the log only the signal handler writes the flag: it was cleared
\* after every role thread had run, and every thread has read it and ended
C16_Witness ==
  /\ ~running
  /\ ~cfg.csv
  /\ proc = "running"
  /\ \A r \in Roles : pc[r] = "done" /\ fires[r] >= 1

\* C17: when main is about to free the counter cells (the measurement files are
\* written and closed in the same stretch of main) and after it has freed them,
\* every role thread that was created has ended and has been joined, so none of
\* them runs a loop iteration on freed cells; a role without a thread never ran.
C17_JoinBeforeRelease ==
  mainPc \in {"free", "return"} =>
    \A r \in Roles :
      /\ threadId[r] = r => pc[r] = "done"
      /\ threadId[r] # r => pc[r] = "none"

\* the cells are freed, main has not returned yet, all three threads had run
C17_Witness ==
  /\ mainPc = "return"
  /\ proc = "running"
  /\ pubCounterData = NULL
  /\ subCounterData = NULL
  /\ \A r \in Roles : threadId[r] = r /\ pc[r] = "done" /\ fires[r] >= 1

\* C18: a failed pthread_join is logged and nothing more. A failure is logged
\* only for a handle that names no created thread (the one pthread_create left
\* behind), never for a callback id 0, for which no join is attempted; after the
\* join of the user thread main always goes on to delete the server, after the
\* deregistration always to the release of the cells and then to its return,
\* whether a join failed or not, and the process does not exit in between; a
\* process in which a join failed ends only by main's return, with the status
\* UA_Server_run gave.
C18_JoinFailureDegraded ==
  /\ [](/\ \A r \in joinFailed : threadId[r] = "main"
        /\ mainPc \in {"delete", "free", "return"} =>
             ("user" \in joinFailed <=> threadId["user"] = "main")
        /\ mainPc \in {"free", "return"} =>
             \A r \in {"pub", "sub"} : r \in joinFailed <=> threadId[r] = "main"
        /\ (proc = "exited" /\ joinFailed # {}) =>
             (mainPc = "return" /\ exitCode = cfg.server))
  /\ [][/\ mainPc = "joinUser" =>
             (proc' # "exited" /\ mainPc' \in {"joinUser", "delete"})
        /\ mainPc = "delete" =>
             (proc' # "exited" /\ mainPc' \in {"delete", "free"})
        /\ mainPc = "free" =>
             (proc' # "exited" /\ mainPc' \in {"free", "return"})
        /\ joinFailed' # joinFailed => mainPc' # mainPc]_vars

\* the joins of the publisher and of the user thread failed, the subscriber's
\* callback id was 0, and main returned as after successful joins
C18_Witness ==
  /\ proc = "exited"
  /\ mainPc = "return"
  /\ exitCode = cfg.server
  /\ joinFailed = {"pub", "user"}
  /\ threadId["sub"] = NoThread

\* C19: a role thread is created only by a step that leaves the calling thread
\* with that role's priority and core, and the new thread starts with exactly
\* the scheduling its creator has then; the calling thread's core is changed
\* only together with, or after, its priority (priority first, then affinity,
\* then creation). So every existing role thread has its own role's configured
\* priority and core from its creation on, and no later spawn, which changes
\* the calling thread only, alters it.
C19_SpawnInheritance ==
  /\ [](\A r \in Roles :
          /\ pc[r] # "none" =>
               sched[r] = [priority |-> cfg.priority[r], core |-> cfg.core[r]]
          /\ pc[r] = "none" => sched[r] = InitialSched)
  /\ [][/\ \A r \in Roles :
             /\ (pc[r] = "none" /\ pc'[r] # "none") =>
                  /\ mainPc = SpawnPc[r]
                  /\ sched'["main"] =
                       [priority |-> cfg.priority[r], core |-> cfg.core[r]]
                  /\ sched'[r] = sched'["main"]
             /\ sched'[r] # sched[r] => (pc[r] = "none" /\ pc'[r] = "start")
        /\ sched'["main"] # sched["main"] =>
             \E r \in Roles :
               /\ mainPc = SpawnPc[r]
               /\ sched'["main"].priority = cfg.priority[r]
               /\ sched'["main"].core \in {sched["main"].core, cfg.core[r]}]_vars

\* all three threads exist, each with its own scheduling, while the calling
\* thread is left with that of the last spawn
C19_Witness ==
  /\ mainPc = "run"
  /\ \A r \in Roles : pc[r] # "none"
  /\ sched["main"] = sched["user"]
  /\ sched["pub"] # sched["main"]
  /\ sched["sub"] # sched["pub"]
  /\ sched["sub"] # sched["main"]

\* a cycle of the user application with the log enabled that completes, both
\* records being below capacity
UserLogCycleBelowCapacity ==
  /\ UserLogStep
  /\ proc' = "running"
  /\ measurementsPublisher < MAX_MEASUREMENTS
  /\ measurementsSubscriber < MAX_MEASUREMENTS

RoleMoves(r) == pc'[r] # pc[r] \/ waits'[r] # waits[r] \/ fires'[r] # fires[r]
\* a step of the main thread
MainMoves == mainPc' # mainPc
\* no role thread that exists is still running
NoThreadRuns == \A r \in Roles : pc[r] \in {"none", "done"}

\* C21: a producer counter changes only in a step of the user thread, or in a
\* step of main taken while no role thread runs (allocation before the first
\* spawn, release after the joins); the consumer counter changes only in a
\* payload of the subscriber thread (the transport callback), or in a step of
\* main taken while neither the subscriber nor the user thread runs. A step of
\* the publisher or of the subscriber thread leaves every producer counter,
\* both measurement records and running unchanged, and the publisher also the
\* consumer counter; a step of the user thread leaves the consumer counter
\* unchanged.
C21_SingleWriterFrame ==
  [][/\ (pubCounterData' # pubCounterData
           \/ repeatedCounterData' # repeatedCounterData) =>
          \/ RoleMoves("user") /\ ~MainMoves
          \/ MainMoves /\ NoThreadRuns
     /\ subCounterData' # subCounterData =>
          \/ pc["sub"] = "fire" /\ fires'["sub"] = fires["sub"] + 1 /\ ~MainMoves
          \/ /\ MainMoves
             /\ pc["sub"] \in {"none", "done"}
             /\ pc["user"] \in {"none", "done"}
     /\ \A r \in {"pub", "sub"} :
          RoleMoves(r) =>
            /\ UNCHANGED <<pubCounterData, repeatedCounterData, recordVars, running>>
            /\ r = "pub" => UNCHANGED subCounterData
     /\ RoleMoves("user") => UNCHANGED subCounterData]_vars

\* every role has run its payload twice; the producer counters hold the user
\* thread's count and the consumer counter a received value
C21_Witness ==
  /\ \A r \in Roles : fires[r] >= 2
  /\ pubCounterData = fires["user"]
  /\ repeatedCounterData[0] = repeatedCounterValue + fires["user"]
  /\ subCounterData = MaxReceived
  /\ proc = "running"

\* C22: in every step the count of each measurement record does not decrease
\* and no entry below the count is modified; the records change only in a
\* payload of the user thread with the log enabled; main reads them (writes
\* the csv lines) only in the step in which its join of the user thread has
\* returned, when that thread has ended or was never created, so that what was
\* read stays equal to the records afterwards.
C22_AppendOnlyRecords ==
  /\ [](csvDump.written =>
          /\ cfg.csv
          /\ pc["user"] \in {"none", "done"}
          /\ mainPc \in {"delete", "free", "return"}
          /\ Len(csvDump.publisher) = measurementsPublisher
          /\ Len(csvDump.subscriber) = measurementsSubscriber
          /\ \A i \in 1 .. measurementsPublisher :
               csvDump.publisher[i] =
                 <<publishCounterValue[i - 1], publishTimestamp[i - 1]>>
          /\ \A i \in 1 .. measurementsSubscriber :
               csvDump.subscriber[i] =
                 <<subscribeCounterValue[i - 1], subscribeTimestamp[i - 1]>>)
  /\ [][/\ measurementsPublisher' >= measurementsPublisher
        /\ measurementsSubscriber' >= measurementsSubscriber
        /\ \A i \in 0 .. measurementsPublisher - 1 :
             /\ publishCounterValue'[i] = publishCounterValue[i]
             /\ publishTimestamp'[i] = publishTimestamp[i]
        /\ \A i \in 0 .. measurementsSubscriber - 1 :
             /\ subscribeCounterValue'[i] = subscribeCounterValue[i]
             /\ subscribeTimestamp'[i] = subscribeTimestamp[i]
        /\ recordVars' # recordVars =>
             (cfg.csv /\ pc["user"] = "fire" /\ fires'["user"] = fires["user"] + 1)
        /\ csvDump' # csvDump =>
             (mainPc = "joinUser" /\ mainPc' = "delete"
                /\ pc["user"] \in {"none", "done"})]_vars

\* main has written both files, the producer record being full
C22_Witness ==
  /\ csvDump.written
  /\ Len(csvDump.publisher) = MAX_MEASUREMENTS
  /\ Len(csvDump.subscriber) >= 1
  /\ csvDump.publisher[MAX_MEASUREMENTS][1] = MAX_MEASUREMENTS
  /\ pc["user"] = "done"


\* the default wake-up fractions of the user application and the publisher
DefaultPhases ==
  /\ cfg.userW = DEFAULT_userAppWakeupPercentage
  /\ cfg.pubW = DEFAULT_pubWakeupPercentage

\* C23 (as claimed): under the default phases, sleeps ending in the order of
\* their deadlines and payloads running at their deadlines, every transmission
\* of the publisher after its first one sends a producer counter exactly 1
\* greater than the transmission before it, whatever second each role thread
\* read at its start (while the flag is true, the user application is in its
\* loop and the counter cell exists).
C23_FreshCounterEachTransmission ==
  [][(/\ DefaultPhases
      /\ running
      /\ pc["user"] \in {"loop", "wait", "fire"}
      /\ fires'["pub"] = fires["pub"] + 1
      /\ published # NULL
      /\ pubCounterData # NULL)
     => published' = published + 1]_vars


\* the configured wake-up fraction of a role
Phase(r) ==
  IF r = "pub" THEN cfg.pubW ELSE IF r = "sub" THEN cfg.subW ELSE cfg.userW

\* s seconds in nanoseconds, modulo p
RECURSIVE SecondsMod(_, _)
SecondsMod(s, p) ==
  IF s = 0 THEN 0 ELSE (SecondsMod(s - 1, p) + (SECONDS % p)) % p

\* the position of the instant ts within the cycle of p nanoseconds
CyclePosition(ts, p) == (SecondsMod(ts.tv_sec, p) + ts.tv_nsec) % p

\* C24 (as claimed): the pending deadlines of any two started role threads
\* differ by (phase_a - phase_b) * P modulo P, P being the cycle time, for
\* every accepted cycle time and whatever second each thread read at its start.
C24_SharedCycleGrid ==
  \A a \in Roles, b \in Roles :
    (Started(a) /\ Started(b) /\ pc[a] # "done" /\ pc[b] # "done") =>
      (CyclePosition(next[a], cfg.cycle) - CyclePosition(next[b], cfg.cycle)
         + cfg.cycle) % cfg.cycle
      = (MulFrac(cfg.cycle, Phase(a)) - MulFrac(cfg.cycle, Phase(b))
         + cfg.cycle) % cfg.cycle


\* the UA_UInt64 total a is strictly later than the total b
Later(a, b) == a.hi > b.hi \/ (a.hi = b.hi /\ a.lo > b.lo)

\* C25: in every cycle of the publisher the transmission time it computes is
\* strictly later than the deadline its sleep of that cycle ended at (the offset
\* being non-negative), and from the second cycle on it is the transmission
\* time of the cycle before plus exactly one cycle time.
C25_TransmissionLaterAndPeriodic ==
  [][fires'["pub"] = fires["pub"] + 1 =>
       /\ cfg.qbv >= 0 =>
            Later(transmission_time', TotalNs(lastWait["pub"]))
       /\ fires["pub"] >= 1 =>
            transmission_time' = AddNs(transmission_time, cfg.cycle)]_vars

\* the publisher has completed MaxCycles cycles with an offset of zero: its last
\* transmission time is the last deadline plus the rest of the cycle, later
\* than that deadline and earlier than the next one
C25_Witness ==
  /\ cfg.qbv = 0
  /\ fires["pub"] = MaxCycles
  /\ pc["pub"] = "loop"
  /\ transmission_time = AddNs(TotalNs(lastWait["pub"]), roundOffCycleTime)
  /\ Later(transmission_time, TotalNs(lastWait["pub"]))
  /\ Later(TotalNs(next["pub"]), transmission_time)


\* the call of addPubSubApplicationCallback for role r returns in this step
CallbackAdded(r) ==
  /\ mainPc = SpawnPc[r]
  /\ r \in cfg.groups
  /\ mainPc' # mainPc

\* C26 (as claimed): every call of addPubSubApplicationCallback with the writer
\* group's identifier creates exactly one thread, the publisher, with the
\* publisher's priority and core, every call with another identifier exactly
\* one thread, the subscriber, with the subscriber's priority and core; the
\* callback id is the handle of the new thread, the thread takes the interval
\* it was given, and the process goes on (the call returned a good status).
C26_CallbackDispatch ==
  [][/\ \A r \in {"pub", "sub"} :
          CallbackAdded(r) =>
            /\ pc' = [pc EXCEPT ![r] = "start"]
            /\ pc[r] = "none"
            /\ sched'[r] = RoleSched(r)
            /\ threadId' = [threadId EXCEPT ![r] = r]
            /\ proc' = "running"
     /\ \A r \in {"pub", "sub"} :
          (pc[r] = "start" /\ pc'[r] = "loop") =>
            interval_ns'[r] = IntervalNs(r)]_vars


\* C27: a call of changePubSubApplicationCallbackInterval returns a good status
\* and changes nothing else (no period, no pending deadline, no other state of
\* a role thread or of main), whatever group and interval it names; hence the
\* period a role thread took at its start stays its period until it ends.
C27_ChangeIntervalNoOp ==
  [][/\ changeStatus' # changeStatus =>
          /\ changeStatus' = Append(changeStatus, UA_STATUSCODE_GOOD)
          /\ UNCHANGED <<cfg, running, proc, exitCode, mainPc, threadId, sched,
                         joinFailed, csvDump, threadVars, transmission_time,
                         published, counterVars, recordVars, convVars>>
     /\ \A r \in Roles :
          Started(r) => /\ interval_ns[r] = IntervalNs(r)
                        /\ interval_ns'[r] = interval_ns[r]]_vars

\* a call was made and returned a good status, and the publisher thread ended
\* after MaxCycles cycles, each deadline one cycle time after the one before
C27_Witness ==
  /\ Len(changeStatus) = 1
  /\ changeStatus[1] = UA_STATUSCODE_GOOD
  /\ pc["pub"] = "done"
  /\ fires["pub"] = MaxCycles
  /\ interval_ns["pub"] = cfg.cycle
  /\ lastWait["pub"] = Plus(first["pub"], MaxCycles - 1, cfg.cycle)


\* C28: with the log disabled both measurement records stay as they were
\* initialised (counts 0) for the whole run and no file is written, and the
\* flag is set to false only by a step that changes nothing else, the signal
\* handler, never by a cycle of the user application.
C28_LogDisabled ==
  /\ [](~cfg.csv =>
          /\ measurementsPublisher = 0
          /\ measurementsSubscriber = 0
          /\ \A i \in 0 .. MAX_MEASUREMENTS - 1 :
               /\ publishCounterValue[i] = 0
               /\ subscribeCounterValue[i] = 0
          /\ ~csvDump.written)
  /\ [][(~cfg.csv /\ running /\ ~running') =>
          UNCHANGED <<cfg, changeStatus, proc, exitCode, mainPc, threadId, sched,
                      joinFailed, csvDump, threadVars, transmission_time,
                      published, counterVars, recordVars, convVars>>]_vars

\* without the log the user application has completed more cycles than a
\* record holds, a message has been received, and the flag is still true
C28_Witness ==
  /\ ~cfg.csv
  /\ running
  /\ fires["user"] = MAX_MEASUREMENTS + 1
  /\ pubCounterData = MAX_MEASUREMENTS + 1
  /\ subCounterData # NULL
  /\ subCounterData > 0
  /\ measurementsPublisher = 0


\* C29: with the log enabled the producer record has no gaps: its count never
\* exceeds the capacity and the counter value stored at every index i below the
\* count is i + 1.
C29_ProducerRecordGapFree ==
  cfg.csv =>
    /\ measurementsPublisher <= MAX_MEASUREMENTS
    /\ \A i \in 0 .. measurementsPublisher - 1 : publishCounterValue[i] = i + 1

\* the producer record is full, its last entry holds the capacity as counter
\* value, and the user application is about to begin the cycle that overflows
C29_Witness ==
  /\ cfg.csv
  /\ running
  /\ measurementsPublisher = MAX_MEASUREMENTS
  /\ publishCounterValue[MAX_MEASUREMENTS - 1] = MAX_MEASUREMENTS
  /\ publishCounterValue[0] = 1
  /\ pc["user"] = "fire"


\* C30: every entry of the consumer record holds a counter value greater than
\* 0 (a cycle appends to it only when the consumer counter it reads is not 0),
\* and while the producer record is below capacity the consumer record's count
\* does not exceed the producer record's count.
C30_ConsumerRecordNonZero ==
  /\ \A i \in 0 .. measurementsSubscriber - 1 : subscribeCounterValue[i] > 0
  /\ measurementsPublisher < MAX_MEASUREMENTS =>
       measurementsSubscriber <= measurementsPublisher

\* a cycle that read the consumer counter 0 appended to the producer record
\* alone, a later cycle appended the received value to both
C30_Witness ==
  /\ cfg.csv
  /\ measurementsPublisher = MAX_MEASUREMENTS
  /\ measurementsSubscriber = 1
  /\ subscribeCounterValue[0] > 0
  /\ subscribeCounterValue[0] = subCounterData
  /\ pc["user"] = "loop"
  /\ running


\* main has made its three spawns
SpawnsDone == mainPc \in {"run", "joinUser", "delete", "free", "return"}

\* C31: threadCreation does not give the calling thread its scheduling back:
\* when the call for a role returns, the calling thread has that role's
\* priority and core, and no other step changes them. After the three spawns
\* the main thread, which then runs the server loop, has the priority and the
\* core of the user application.
C31_CallerKeepsRoleScheduling ==
  /\ [](SpawnsDone => sched["main"] = RoleSched("user"))
  /\ [][/\ \A r \in Roles :
             (/\ mainPc = SpawnPc[r]
              /\ mainPc' # mainPc
              /\ r = "user" \/ r \in cfg.groups) =>
               sched'["main"] = RoleSched(r)
        /\ sched'["main"] # sched["main"] =>
             \E r \in Roles : mainPc = SpawnPc[r]]_vars

\* the server loop has ended and the user application thread with it; the main
\* thread still has the user application's priority, which is higher than the
\* publisher's and the subscriber's, and its core
C31_Witness ==
  /\ mainPc = "joinUser"
  /\ pc["user"] = "done"
  /\ fires["user"] >= 1
  /\ sched["main"] = RoleSched("user")
  /\ sched["main"].priority > cfg.priority["pub"]
  /\ sched["main"].priority > cfg.priority["sub"]
  /\ sched["main"] # InitialSched


\* C32 (as claimed): every handle threadCreation has returned is that of a new
\* role thread and not of the calling thread, so every join names a role
\* thread, and while the server loop runs the thread of every role whose spawn
\* was made exists.
C32_HandleIsNewThread ==
  /\ \A r \in Roles :
       threadId[r] # NoThread => (threadId[r] = r /\ pc[r] # "none")
  /\ mainPc = "run" =>
       \A r \in Roles : (r = "user" \/ r \in cfg.groups) => pc[r] # "none"


\* C33 (as claimed): while the user application thread exists and has not
\* ended, the producer counter cell, every repeated counter cell and the
\* consumer counter cell are allocated, whatever path the setup took.
C33_CellsAllocatedForUserThread ==
  pc["user"] \in {"start", "loop", "wait", "fire"} =>
    /\ pubCounterData # NULL
    /\ \A i \in 0 .. REPEATED_NODECOUNTS - 1 : repeatedCounterData[i] # NULL
    /\ subCounterData # NULL


\* the three role threads exist and the priorities are the default ones
DefaultPrioritiesInForce ==
  /\ cfg.priority = DEFAULT_SCHED_PRIORITY
  /\ \A r \in Roles : pc[r] # "none"

\* C34 (as claimed): under the default configuration the publisher thread has
\* the highest priority of the three role threads, the subscriber thread's is
\* as high as the highest, and the user application's is strictly lower than
\* both.
C34_ProducerHighest ==
  DefaultPrioritiesInForce =>
    /\ \A r \in Roles : sched["pub"].priority >= sched[r].priority
    /\ \A r \in Roles : sched["sub"].priority >= sched[r].priority
    /\ sched["user"].priority < sched["pub"].priority
    /\ sched["user"].priority < sched["sub"].priority

\* C34: under the default configuration the subscriber thread has the highest
\* priority of the three role threads, the publisher thread's is strictly
\* lower than the subscriber's, and the user application's is strictly lower
\* than both.
C34_ConsumerHighest ==
  DefaultPrioritiesInForce =>
    /\ \A r \in Roles : sched["sub"].priority >= sched[r].priority
    /\ sched["pub"].priority < sched["sub"].priority
    /\ sched["user"].priority < sched["pub"].priority
    /\ sched["user"].priority < sched["sub"].priority

\* the default configuration with the three threads in their loops, each at the
\* default priority of its role
C34_Witness ==
  /\ DefaultPrioritiesInForce
  /\ cfg.core = DEFAULT_CORE
  /\ \A r \in Roles : fires[r] >= 1
  /\ \A r \in Roles : sched[r].priority = DEFAULT_SCHED_PRIORITY[r]
  /\ sched["sub"].priority > sched["pub"].priority


\* C35: nanoSecondFieldConversion returns a timespec with 0 <= tv_nsec < 10^9
\* unchanged, applying it to its own result changes nothing, and for every
\* tv_nsec >= 0 the result stands for the same instant
\* tv_sec * 10^9 + tv_nsec as the argument.
C35_ConversionIdentityIdempotent ==
  convDone =>
    /\ Normalized(tsIn) => tsOut = tsIn
    /\ nanoSecondFieldConversion(tsOut) = tsOut
    /\ tsIn.tv_nsec >= 0 =>
         /\ tsOut.tv_sec + (tsOut.tv_nsec \div SECONDS)
              = tsIn.tv_sec + (tsIn.tv_nsec \div SECONDS)
         /\ tsOut.tv_nsec % SECONDS = tsIn.tv_nsec % SECONDS

\* the call was made with the largest nanosecond field that needs no carry and
\* returned it as it was
C35_Witness ==
  /\ convDone
  /\ tsIn.tv_nsec = SECONDS - 1
  /\ tsIn.tv_sec > 0
  /\ tsOut = tsIn


=============================================================================
